---------------------------- MODULE Spec2Model ----------------------------
(***************************************************************************)
(* Model of the SWIFT transaction processor's fraud-scoring core:          *)
(*   - the three rule-based scorers and the aggregator of                  *)
(*     agents/workflow_agents/base_agents.py,                              *)
(*   - ParallelizationPattern.process_batch_parallel of                    *)
(*     agents/parallelization.py (thread pool, futures, per-slot wait).    *)
(*                                                                         *)
(* Representation.                                                         *)
(*   - A Python str that the code inspects character by character is a     *)
(*     sequence of one-character strings; None is the value None below.    *)
(*   - A dict is a function whose DOMAIN is the set of keys present.       *)
(*   - A risk score is an integer number of tenths (0.3 is 3); sums of     *)
(*     scores are exact.  Binary floating-point rounding of the Python     *)
(*     floats is not represented.                                          *)
(*   - confidence is an integer number of hundredths (of a percent) and    *)
(*     total_risk_score an integer number of thousandths.                  *)
(*   - A parsed amount is [int, scale]: the magnitude int / scale.         *)
(*   - A call that raises yields [raised |-> <exception name>].            *)
(***************************************************************************)
EXTENDS Integers, Sequences, FiniteSets, TLC

(***************************************************************************)
(* Bounds of the model.                                                    *)
(***************************************************************************)
MaxBatch == 2        \* longest input batch of process_batch_parallel
MaxTimeouts == 1     \* most slot waits that time out in one call
MaxResults == 3      \* longest result list handed to aggregate_results alone
MaxTasks == 3        \* longest task list the orchestrator answers with

(***************************************************************************)
(* Python values.                                                          *)
(***************************************************************************)
None == <<"<None>">>

Get(d, key, default) == IF key \in DOMAIN d THEN d[key] ELSE default

Min(a, b) == IF a <= b THEN a ELSE b

Digits == <<"0", "1", "2", "3", "4", "5", "6", "7", "8", "9">>

LowerLetters ==
  <<"a", "b", "c", "d", "e", "f", "g", "h", "i", "j", "k", "l", "m",
    "n", "o", "p", "q", "r", "s", "t", "u", "v", "w", "x", "y", "z">>

UpperLetters ==
  <<"A", "B", "C", "D", "E", "F", "G", "H", "I", "J", "K", "L", "M",
    "N", "O", "P", "Q", "R", "S", "T", "U", "V", "W", "X", "Y", "Z">>

Range(s) == {s[n] : n \in DOMAIN s}

isdigit(c) == c \in Range(Digits)

IndexOf(s, c) == CHOOSE n \in DOMAIN s : s[n] = c

\* str.upper(), character by character
upper(s) ==
  [n \in DOMAIN s |->
     IF s[n] \in Range(LowerLetters)
       THEN UpperLetters[IndexOf(LowerLetters, s[n])] ELSE s[n]]

\* str.lower(), character by character
lower(s) ==
  [n \in DOMAIN s |->
     IF s[n] \in Range(UpperLetters)
       THEN LowerLetters[IndexOf(UpperLetters, s[n])] ELSE s[n]]

\* pattern in s
Contains(s, pattern) ==
  \E n \in 1..(Len(s) - Len(pattern) + 1) :
     SubSeq(s, n, n + Len(pattern) - 1) = pattern

\* s[a:b] with 0-based Python bounds, 0 <= a <= b
Slice(s, a, b) == SubSeq(s, a + 1, Min(b, Len(s)))

RECURSIVE Pow10(_)
Pow10(n) == IF n = 0 THEN 1 ELSE 10 * Pow10(n - 1)

RECURSIVE DigitsValue(_)
DigitsValue(s) ==
  IF s = <<>> THEN 0
  ELSE 10 * DigitsValue(SubSeq(s, 1, Len(s) - 1))
         + (IndexOf(Digits, s[Len(s)]) - 1)

\* faulty variant: every text has a value, the digits read without the points
float_lenient(s) ==
  LET digs == SelectSeq(s, isdigit)
  IN  [int |-> IF digs = <<>> THEN 0 ELSE DigitsValue(digs), scale |-> 1]

\* faulty variant: the decimal point is dropped, "250.75" reads as 25075
float_nodot(s) ==
  LET digs == SelectSeq(s, isdigit)
  IN  IF Cardinality({n \in DOMAIN s : s[n] = "."}) > 1 \/ digs = <<>>
        THEN [raised |-> "ValueError"]
        ELSE [int |-> DigitsValue(digs), scale |-> 1]

\* float(s) for s made of digits and '.' only
float(s) ==
  LET dots == {n \in DOMAIN s : s[n] = "."}
      digs == SelectSeq(s, isdigit)
  IN  IF Cardinality(dots) > 1 \/ digs = <<>>
        THEN [raised |-> "ValueError"]
        ELSE LET frac == IF dots = {} THEN 0
                         ELSE Len(s) - (CHOOSE n \in dots : TRUE)
             IN  [int |-> DigitsValue(digs), scale |-> Pow10(frac)]

\* faulty variant: truncation instead of rounding
round_down(num, den) == num \div den

\* round-half-even of the rational num / den (num >= 0, den > 0)
round(num, den) ==
  LET q == num \div den
      r == num % den
  IN  IF 2 * r < den THEN q
      ELSE IF 2 * r > den THEN q + 1
      ELSE IF q % 2 = 0 THEN q ELSE q + 1

EmptyDict == [x \in {} |-> x]

\* d[key] = value on a dict
Put(d, key, value) ==
  [x \in DOMAIN d \cup {key} |-> IF x = key THEN value ELSE d[x]]

IsRaised(v) == DOMAIN v = {"raised"}

(***************************************************************************)
(* The scorers (base_agents.py).                                           *)
(***************************************************************************)
AmountHighScore == 3          \* 0.3
AmountRoundScore == 2         \* 0.2
AmountPrecisionScore == 1     \* 0.1
PatternScore == 4             \* 0.4
SameBicScore == 5             \* 0.5
KeywordScore == 2             \* 0.2
HighRiskScore == 4            \* 0.4
MediumRiskScore == 2          \* 0.2
CombinationScore == 3         \* 0.3
MaxScore == 10                \* 1.0
ScoreUnit == MaxScore         \* a score s stands for s / ScoreUnit

\* faulty variant: the running total is returned as it is
ScoreResult_unclamped(agent, risk_score, fraud_reasons) ==
  [agent |-> agent, risk_score |-> risk_score,
   fraud_reasons |-> fraud_reasons]

\* the dict returned by analyze: "risk_score": min(risk_score, 1.0)
ScoreResult(agent, risk_score, fraud_reasons) ==
  [agent |-> agent, risk_score |-> Min(risk_score, MaxScore),
   fraud_reasons |-> fraud_reasons]

FraudAmountDetectionAgent_analyze(message) ==
  LET amount_str == Get(message, "amount", <<"0">>)
      amount == IF amount_str = None
                  THEN [raised |-> "TypeError"]
                  ELSE float(SelectSeq(amount_str,
                                       LAMBDA c : isdigit(c) \/ c = "."))
      parsed == ~IsRaised(amount)
      rule1 == parsed /\ amount.int > 10000 * amount.scale
      rule2 == parsed /\ amount.int % (1000 * amount.scale) = 0
                      /\ amount.int > 0
      rule3 == parsed /\ amount.int > 100000 * amount.scale
                      /\ amount.int % amount.scale # 0
  IN  ScoreResult("FraudAmountDetectionAgent",
        (IF rule1 THEN AmountHighScore ELSE 0)
          + (IF rule2 THEN AmountRoundScore ELSE 0)
          + (IF rule3 THEN AmountPrecisionScore ELSE 0),
        (IF rule1 THEN << <<"High amount transaction: ", amount>> >>
                  ELSE <<>>)
          \o (IF rule2 THEN << <<"Suspiciously round amount: ", amount>> >>
                       ELSE <<>>)
          \o (IF rule3
                THEN << <<"Large amount with unusual decimal precision">> >>
                ELSE <<>>))

high_risk_patterns ==
  << <<"T", "E", "S", "T">>, <<"F", "A", "K", "E">>, <<"D", "E", "M", "O">>,
     <<"9", "9", "9">>, <<"0", "0", "0", "0", "0", "0">> >>

suspicious_keywords ==
  << <<"u", "r", "g", "e", "n", "t">>,
     <<"i", "m", "m", "e", "d", "i", "a", "t", "e", "l", "y">>,
     <<"s", "e", "c", "r", "e", "t">>,
     <<"c", "o", "n", "f", "i", "d", "e", "n", "t", "i", "a", "l">> >>

\* line 181: pattern in sender_bic.upper() or pattern in receiver_bic.upper()
\* faulty variant: the codes are searched as they are written
pattern_in_bics_cased(pattern, sender_bic, receiver_bic) ==
  \/ Contains(sender_bic, pattern)
  \/ Contains(receiver_bic, pattern)

pattern_in_bics(pattern, sender_bic, receiver_bic) ==
  \/ Contains(upper(sender_bic), pattern)
  \/ Contains(upper(receiver_bic), pattern)

\* line 186: sender_bic and sender_bic == receiver_bic
\* faulty variant: empty codes count as equal codes
same_sender_receiver_any(sender_bic, receiver_bic) ==
  sender_bic = receiver_bic

same_sender_receiver(sender_bic, receiver_bic) ==
  sender_bic # <<>> /\ sender_bic = receiver_bic

FraudPatternDetectionAgent_analyze(message) ==
  LET sender_bic == Get(message, "sender_bic", <<>>)
      receiver_bic == Get(message, "receiver_bic", <<>>)
      \* pattern in sender_bic.upper() or pattern in receiver_bic.upper():
      \* the right operand is evaluated only when the left one is false
      raises ==
        \/ sender_bic = None
        \/ /\ receiver_bic = None
           /\ \E n \in DOMAIN high_risk_patterns :
                 ~Contains(upper(sender_bic), high_risk_patterns[n])
      matched ==
        SelectSeq(high_risk_patterns,
                  LAMBDA pattern :
                    pattern_in_bics(pattern, sender_bic, receiver_bic))
      same == same_sender_receiver(sender_bic, receiver_bic)
      info == Get(message, "remittance_info", <<>>)
      remittance == lower(IF info = None THEN <<>> ELSE info)
      found == SelectSeq(suspicious_keywords,
                         LAMBDA keyword : Contains(remittance, keyword))
  IN  IF raises THEN [raised |-> "AttributeError"]
      ELSE ScoreResult("FraudPatternDetectionAgent",
             PatternScore * Len(matched)
               + (IF same THEN SameBicScore ELSE 0)
               + KeywordScore * Len(found),
             [n \in 1..Len(matched) |->
                <<"Test/fake pattern detected in BIC: ", matched[n]>>]
               \o (IF same THEN << <<"Same sender and receiver BIC">> >>
                           ELSE <<>>)
               \o [n \in 1..Len(found) |->
                     <<"Suspicious keyword in remittance: ", found[n]>>])

high_risk_countries ==
  { <<"I", "R">>, <<"K", "P">>, <<"S", "Y">>, <<"C", "U">>, <<"V", "E">>,
    <<"R", "U">>, <<"B", "Y">>, <<"A", "F">>, <<"I", "Q">>, <<"L", "B">>,
    <<"S", "D">>, <<"Z", "W">>, <<"M", "M">>, <<"Y", "E">>, <<"S", "O">>,
    <<"C", "D">>, <<"C", "G">>, <<"H", "T">>, <<"T", "G">>, <<"G", "N">> }

\* faulty variant: RU is in both sets
medium_risk_countries_overlap ==
  { <<"C", "N">>, <<"H", "K">>, <<"S", "G">>, <<"A", "E">>, <<"S", "A">>,
    <<"Q", "A">>, <<"K", "W">>, <<"B", "H">>, <<"O", "M">>, <<"J", "O">>,
    <<"T", "R">>, <<"E", "G">>, <<"M", "A">>, <<"T", "N">>, <<"D", "Z">>,
    <<"L", "Y">>, <<"P", "K">>, <<"B", "D">>, <<"L", "K">>, <<"N", "P">>,
    <<"R", "U">> }

medium_risk_countries ==
  { <<"C", "N">>, <<"H", "K">>, <<"S", "G">>, <<"A", "E">>, <<"S", "A">>,
    <<"Q", "A">>, <<"K", "W">>, <<"B", "H">>, <<"O", "M">>, <<"J", "O">>,
    <<"T", "R">>, <<"E", "G">>, <<"M", "A">>, <<"T", "N">>, <<"D", "Z">>,
    <<"L", "Y">>, <<"P", "K">>, <<"B", "D">>, <<"L", "K">>, <<"N", "P">> }

\* lines 268-269: one side high-risk, the other in neither set
\* faulty variant: a medium-risk other side gets the bonus too
unusual_combination_loose(sender_high_risk, sender_med_risk, receiver_high_risk, receiver_med_risk) ==
  \/ sender_high_risk /\ ~receiver_high_risk
  \/ receiver_high_risk /\ ~sender_high_risk

unusual_combination(sender_high_risk, sender_med_risk, receiver_high_risk, receiver_med_risk) ==
  \/ sender_high_risk /\ ~receiver_high_risk /\ ~receiver_med_risk
  \/ receiver_high_risk /\ ~sender_high_risk /\ ~sender_med_risk

\* faulty variant: the slice is taken whatever the length of the code
country_code_unchecked(bic) == upper(Slice(bic, 4, 6))

\* lines 239-240: bic[4:6].upper() if len(bic) >= 6 else ''
country_code(bic) ==
  IF Len(bic) >= 6 THEN upper(Slice(bic, 4, 6)) ELSE <<>>

FraudGeographicRiskAgent_analyze(message) ==
  LET sender_bic == Get(message, "sender_bic", <<>>)
      receiver_bic == Get(message, "receiver_bic", <<>>)
      sender_country == country_code(sender_bic)
      receiver_country == country_code(receiver_bic)
      sender_high_risk == sender_country \in high_risk_countries
      sender_med_risk == sender_country \in medium_risk_countries
      receiver_high_risk == receiver_country \in high_risk_countries
      receiver_med_risk == receiver_country \in medium_risk_countries
      combination ==
        /\ sender_country # <<>> /\ receiver_country # <<>>
        /\ unusual_combination(sender_high_risk, sender_med_risk,
                               receiver_high_risk, receiver_med_risk)
  IN  \* len(None) raises TypeError, which the except clause does not catch
      IF sender_bic = None \/ receiver_bic = None
        THEN [raised |-> "TypeError"]
      ELSE ScoreResult("FraudGeographicRiskAgent",
             (IF sender_high_risk THEN HighRiskScore ELSE 0)
               + (IF receiver_high_risk THEN HighRiskScore ELSE 0)
               + (IF sender_med_risk THEN MediumRiskScore ELSE 0)
               + (IF receiver_med_risk THEN MediumRiskScore ELSE 0)
               + (IF combination THEN CombinationScore ELSE 0),
             (IF sender_high_risk
                THEN << <<"High-risk sender country: ", sender_country>> >>
                ELSE <<>>)
               \o (IF receiver_high_risk
                     THEN << <<"High-risk receiver country: ",
                               receiver_country>> >>
                     ELSE <<>>)
               \o (IF sender_med_risk
                     THEN << <<"Medium-risk sender country: ",
                               sender_country>> >>
                     ELSE <<>>)
               \o (IF receiver_med_risk
                     THEN << <<"Medium-risk receiver country: ",
                               receiver_country>> >>
                     ELSE <<>>)
               \o (IF combination
                     THEN << <<"Unusual risk level combination: ",
                               <<sender_country, receiver_country>> >> >>
                     ELSE <<>>))

(***************************************************************************)
(* The aggregator (base_agents.py, FraudAggAgent).                         *)
(***************************************************************************)
threshold == 5                \* 0.5

RECURSIVE total_risk(_)
total_risk(fraud_results) ==
  IF fraud_results = <<>> THEN 0
  ELSE Get(fraud_results[1], "risk_score", 0)
         + total_risk(Tail(fraud_results))

\* faulty variant: the last result's reasons come first
RECURSIVE all_reasons_reversed(_)
all_reasons_reversed(fraud_results) ==
  IF fraud_results = <<>> THEN <<>>
  ELSE LET result == fraud_results[Len(fraud_results)]
           agent_name == Get(result, "agent", "Unknown")
           reasons == Get(result, "fraud_reasons", <<>>)
       IN  [n \in 1..Len(reasons) |-> <<agent_name, reasons[n]>>]
             \o all_reasons_reversed(
                  SubSeq(fraud_results, 1, Len(fraud_results) - 1))

RECURSIVE all_reasons(_)
all_reasons(fraud_results) ==
  IF fraud_results = <<>> THEN <<>>
  ELSE LET result == fraud_results[1]
           agent_name == Get(result, "agent", "Unknown")
           reasons == Get(result, "fraud_reasons", <<>>)
       IN  [n \in 1..Len(reasons) |-> <<agent_name, reasons[n]>>]
             \o all_reasons(Tail(fraud_results))

\* faulty variant: no guard for the empty list
is_empty_unguarded(fraud_results) == FALSE

\* `not fraud_results` (line 299)
is_empty(fraud_results) == fraud_results = <<>>

\* faulty variant: exclusive threshold
is_fraudulent_strict(total, count) == total > threshold * count

\* avg_risk >= self.threshold (line 320), avg_risk = total / (ScoreUnit * count)
is_fraudulent(total, count) == total >= threshold * count

aggregate_results(fraud_results) ==
  IF is_empty(fraud_results)
    THEN [is_fraudulent |-> FALSE, confidence |-> 0,
          total_risk_score |-> 0, aggregated_reasons |-> <<>>]
  ELSE LET total == total_risk(fraud_results)
           count == Len(fraud_results)
       IN  IF count = 0
             THEN [raised |-> "ZeroDivisionError"]
             ELSE [is_fraudulent |-> is_fraudulent(total, count),
                   confidence |->
                     round(total * 100 * 100, ScoreUnit * count),
                   total_risk_score |->
                     round(total * 1000, ScoreUnit * count),
                   aggregated_reasons |-> all_reasons(fraud_results)]

(***************************************************************************)
(* ParallelizationPattern (parallelization.py).                            *)
(***************************************************************************)
list_of_agents ==
  <<"FraudAmountDetectionAgent", "FraudPatternDetectionAgent",
    "FraudGeographicRiskAgent">>

analyze(agent, message) ==
  CASE agent = "FraudAmountDetectionAgent" ->
         FraudAmountDetectionAgent_analyze(message)
    [] agent = "FraudPatternDetectionAgent" ->
         FraudPatternDetectionAgent_analyze(message)
    [] agent = "FraudGeographicRiskAgent" ->
         FraudGeographicRiskAgent_analyze(message)

_process_message(message, agent) ==
  LET result == analyze(agent, message)
  IN  IF IsRaised(result)
        THEN [agent |-> agent, error |-> result.raised,
              risk_score |-> 0, fraud_reasons |-> <<>>]
        ELSE Put(result, "message_id",
                 Get(message, "message_id", "unknown"))

max_workers == 8
NumAgents == Len(list_of_agents)

(***************************************************************************)
(* Input records the batches are drawn from.                               *)
(***************************************************************************)
MsgFraud ==
  [message_id |-> "MSG001", message_type |-> "MT103",
   amount |-> <<"1", "5", "0", "0", "0", ".", "0", "0", " ", "U", "S", "D">>,
   sender_bic |-> <<"T", "E", "S", "T", "U", "S", "3", "3">>,
   receiver_bic |-> <<"F", "A", "K", "E", "G", "B", "2", "2">>,
   remittance_info |-> <<"U", "r", "g", "e", "n", "t">>]

MsgBorder ==
  [message_id |-> "MSG002", message_type |-> "MT103",
   amount |-> <<"1", "5", "0", "0", "0", " ", "U", "S", "D">>,
   sender_bic |-> <<"D", "E", "U", "T", "D", "E", "F", "F">>,
   receiver_bic |-> <<"D", "E", "U", "T", "D", "E", "F", "F">>,
   remittance_info |-> None]

\* same identifier as MsgFraud, other content; sender_bic is None
MsgDup ==
  [message_id |-> "MSG001", message_type |-> "MT103",
   amount |-> <<"1", "0", "0", "0", "0", "0", ".", "5", " ", "U", "S", "D">>,
   sender_bic |-> None,
   receiver_bic |-> <<"b", "a", "n", "k", "s", "y", "d", "a">>,
   remittance_info |-> <<"s", "e", "c", "r", "e", "t">>]

\* no message_id key
MsgNoId ==
  [message_type |-> "MT103",
   amount |-> <<"5", "0", "0", "0", " ", "G", "B", "P">>,
   sender_bic |-> <<"B", "A", "N", "K", "R", "U", "M", "M">>,
   receiver_bic |-> <<"B", "A", "N", "K", "C", "N", "B", "J">>,
   remittance_info |-> <<>>]

Records == {MsgFraud, MsgBorder, MsgDup, MsgNoId}

RECURSIVE SeqsUpTo(_, _)
SeqsUpTo(S, n) ==
  IF n = 0 THEN {<<>>}
  ELSE LET shorter == SeqsUpTo(S, n - 1)
       IN  shorter \cup {Append(q, x) : q \in shorter, x \in S}

(***************************************************************************)
(* State.                                                                  *)
(***************************************************************************)
VARIABLES
  messages,            \* the caller's list of record dicts (mutated in place)
  pc,                  \* position of the calling thread
  i,                   \* submit loop: index of the next message
  work_queue,          \* executor: submitted tasks no worker has taken yet
  running,             \* executor: tasks a worker is executing
  future_result,       \* finished futures: task -> returned dict
  future_to_msg,       \* insertion-ordered dict message_id -> message, futures
  k,                   \* collect loop: index of the current future_to_msg item
  j,                   \* collect loop: index of the current future of the item
  agent_results,       \* results collected for the current item
  processed_messages,  \* references (positions in messages) appended so far
  exception,           \* exception propagating out of the with block, if any
  delivered,           \* history: tasks whose future.result() returned
  timed_out,           \* history: tasks whose future.result() timed out
  fraud_results,       \* aggregate_results alone: its argument
  aggregated,          \* aggregate_results alone: its return value
  agg_pc,              \* aggregate_results alone: "call" or "done"
  run,                 \* number of the current call on the same batch (1, 2)
  first_run,           \* the batch as the first call returned it
  scorer_message,      \* analyze alone: its argument
  scorer,              \* analyze alone: the agent whose analyze is called
  score_result,        \* analyze alone: what the call returns or raises
  scorer_pc,           \* analyze alone: "call" or "done"
  eo_messages,         \* evaluator-optimizer: the list of messages passed in
  eo_pc,               \* evaluator-optimizer: position in the two loops
  eo_i,                \* evaluator-optimizer: index i of the current message
  iteration,           \* evaluator-optimizer: the inner loop variable
  eo_message,          \* evaluator-optimizer: the local variable message
  errors,              \* evaluator-optimizer: errors of the last evaluation
  optimized_messages,  \* evaluator-optimizer: the list being returned
  trace,               \* history: per message, its evaluations and corrections
  orch_pc,             \* orchestrator: position in process_with_orchestrator
  orchestrator_response, \* orchestrator: what analyze_and_create_tasks returned
  tasks,               \* orchestrator: orchestrator_response.get('tasks', [])
  task_n,              \* orchestrator: index of the task the loop is at
  task_results,        \* orchestrator: the local list results
  executed             \* history: indices of the tasks execute_task was given

vars ==
  <<messages, pc, i, work_queue, running, future_result, future_to_msg, k, j,
    agent_results, processed_messages, exception, delivered, timed_out,
    fraud_results, aggregated, agg_pc, run, first_run, scorer_message, scorer,
    score_result, scorer_pc, eo_messages, eo_pc, eo_i, iteration, eo_message,
    errors, optimized_messages, trace, orch_pc, orchestrator_response, tasks,
    task_n, task_results, executed>>

eo_vars ==
  <<eo_messages, eo_pc, eo_i, iteration, eo_message, errors,
    optimized_messages, trace>>

orch_vars ==
  <<orch_pc, orchestrator_response, tasks, task_n, task_results, executed>>

pool_vars == <<work_queue, running, future_result>>
agg_vars == <<fraud_results, aggregated, agg_pc>>
rerun_vars == <<run, first_run>>
scorer_vars == <<scorer_message, scorer, score_result, scorer_pc>>
batch_vars ==
  <<messages, pc, i, work_queue, running, future_result, future_to_msg, k, j,
    agent_results, processed_messages, exception, delivered, timed_out>>

NoException == "none"
NoVerdict == [none |-> TRUE]
NoResult == [none |-> TRUE]
NoMessage == EmptyDict

\* the variables of analyze alone, when it is not the subject
ScorerIdle ==
  /\ scorer_message = NoMessage
  /\ scorer = "none"
  /\ score_result = NoResult
  /\ scorer_pc = "idle"

\* the variables of aggregate_results alone, when it is not the subject
AggIdle ==
  /\ fraud_results = <<>>
  /\ aggregated = NoVerdict
  /\ agg_pc = "idle"

\* the variables of process_batch_parallel, when it is not the subject
BatchIdle ==
  /\ messages = <<>>
  /\ pc = "idle"
  /\ i = 1
  /\ work_queue = <<>>
  /\ running = {}
  /\ future_result = EmptyDict
  /\ future_to_msg = <<>>
  /\ k = 1
  /\ j = 1
  /\ agent_results = <<>>
  /\ processed_messages = <<>>
  /\ exception = NoException
  /\ delivered = {}
  /\ timed_out = {}
  /\ run = 1
  /\ first_run = <<>>

\* the variables of process_with_evaluator_optimizer, when it is not the
\* subject
EvalIdle ==
  /\ eo_messages = <<>>
  /\ eo_pc = "idle"
  /\ eo_i = 1
  /\ iteration = 0
  /\ eo_message = NoMessage
  /\ errors = <<>>
  /\ optimized_messages = <<>>
  /\ trace = <<>>

\* the variables of process_with_orchestrator, when it is not the subject
OrchIdle ==
  /\ orch_pc = "idle"
  /\ orchestrator_response = EmptyDict
  /\ tasks = <<>>
  /\ task_n = 1
  /\ task_results = <<>>
  /\ executed = <<>>

\* a task is <<p, a>>: scorer list_of_agents[a] on the record messages[p]
Tasks == (1..Len(messages)) \X (1..NumAgents)

Finished(t) == t \in DOMAIN future_result

Submitted ==
  Range(work_queue) \cup running \cup DOMAIN future_result

Init ==
  /\ messages \in SeqsUpTo(Records, MaxBatch)
  /\ pc = "submit"
  /\ i = 1
  /\ work_queue = <<>>
  /\ running = {}
  /\ future_result = EmptyDict
  /\ future_to_msg = <<>>
  /\ k = 1
  /\ j = 1
  /\ agent_results = <<>>
  /\ processed_messages = <<>>
  /\ exception = NoException
  /\ delivered = {}
  /\ timed_out = {}
  /\ run = 1
  /\ first_run = <<>>
  /\ AggIdle
  /\ ScorerIdle
  /\ EvalIdle
  /\ OrchIdle

(***************************************************************************)
(* process_batch_parallel: the calling thread.                             *)
(***************************************************************************)
\* future_to_msg[msg_id] = item: a new key goes last, a key already present
\* keeps its place and gets the new value
SetItem(d, msg_id, item) ==
  IF \E n \in DOMAIN d : d[n].msg_id = msg_id
    THEN [n \in DOMAIN d |-> IF d[n].msg_id = msg_id THEN item ELSE d[n]]
    ELSE Append(d, item)

\* lines 88-98, one iteration: submit one task per agent for messages[i], then
\* store the futures under message['message_id']
SubmitMessage ==
  /\ pc = "submit"
  /\ i <= Len(messages)
  /\ LET agent_futures == [a \in 1..NumAgents |-> <<i, a>>]
     IN  /\ work_queue' = work_queue \o agent_futures
         /\ IF "message_id" \in DOMAIN messages[i]
              THEN /\ future_to_msg' =
                        SetItem(future_to_msg, messages[i]["message_id"],
                                [msg_id |-> messages[i]["message_id"],
                                 message |-> i,
                                 futures |-> agent_futures])
                   /\ i' = i + 1
                   /\ UNCHANGED <<pc, exception>>
              ELSE /\ exception' = "KeyError"
                   /\ pc' = "shutdown"
                   /\ UNCHANGED <<future_to_msg, i>>
  /\ UNCHANGED <<messages, running, future_result, k, j, agent_results,
                 processed_messages, delivered, timed_out>>
  /\ UNCHANGED agg_vars
  /\ UNCHANGED rerun_vars
  /\ UNCHANGED scorer_vars
  /\ UNCHANGED eo_vars
  /\ UNCHANGED orch_vars

\* line 101: the submit loop is over, the collect loop starts
BeginCollect ==
  /\ pc = "submit"
  /\ i > Len(messages)
  /\ pc' = IF future_to_msg = <<>> THEN "shutdown" ELSE "collect"
  /\ UNCHANGED <<messages, i, work_queue, running, future_result,
                 future_to_msg, k, j, agent_results, processed_messages,
                 exception, delivered, timed_out>>
  /\ UNCHANGED agg_vars
  /\ UNCHANGED rerun_vars
  /\ UNCHANGED scorer_vars
  /\ UNCHANGED eo_vars
  /\ UNCHANGED orch_vars

\* faulty variant: the wait ends at the first future
LastFuture_first(slot, futures) == TRUE

\* the loop over msg_data['futures'] (line 106) ends after its last future
LastFuture(slot, futures) == slot = Len(futures)

AfterWait(futures) ==
  IF LastFuture(j, futures)
    THEN pc' = "aggregate" /\ j' = j
    ELSE pc' = "collect" /\ j' = j + 1

\* lines 108-109: future.result(timeout=5) returns the task's result
CollectResult ==
  /\ pc = "collect"
  /\ LET item == future_to_msg[k]
         future == item.futures[j]
     IN  /\ Finished(future)
         /\ agent_results' = Append(agent_results, future_result[future])
         /\ delivered' = delivered \cup {future}
         /\ AfterWait(item.futures)
  /\ UNCHANGED <<messages, i, work_queue, running, future_result,
                 future_to_msg, k, processed_messages, exception, timed_out>>
  /\ UNCHANGED agg_vars
  /\ UNCHANGED rerun_vars
  /\ UNCHANGED scorer_vars
  /\ UNCHANGED eo_vars
  /\ UNCHANGED orch_vars

\* lines 108, 110-111: the future is not finished when the 5 seconds are over;
\* result() raises TimeoutError, which is printed and nothing is appended
CollectTimeout ==
  /\ pc = "collect"
  /\ Cardinality(timed_out) < MaxTimeouts
  /\ LET item == future_to_msg[k]
         future == item.futures[j]
     IN  /\ ~Finished(future)
         /\ timed_out' = timed_out \cup {future}
         /\ AfterWait(item.futures)
  /\ UNCHANGED <<messages, i, work_queue, running, future_result,
                 future_to_msg, k, agent_results, processed_messages,
                 exception, delivered>>
  /\ UNCHANGED agg_vars
  /\ UNCHANGED rerun_vars
  /\ UNCHANGED scorer_vars
  /\ UNCHANGED eo_vars
  /\ UNCHANGED orch_vars

\* faulty variant: the aggregator is falsy
aggregator_falsy == FALSE

\* line 80: aggregator = FraudAggAgent() is an object without __bool__ or
\* __len__, so `if aggregator:` takes the first branch
aggregator == TRUE

\* faulty variant: the verdict is attached to a new dict that keeps only the
\* record's message_id
Annotate_fresh(message, results) ==
  LET verdict == aggregate_results(results)
  IN  [message_id |-> Get(message, "message_id", "unknown"),
       fraud_status |-> IF verdict.is_fraudulent THEN "FRAUDULENT"
                                                 ELSE "CLEAN",
       fraud_score |-> verdict.confidence,
       fraud_reasons |-> verdict.aggregated_reasons,
       fraud_analysis |-> results]

\* faulty variant: the reasons are appended to those the record already has
Annotate_accumulate(message, results) ==
  LET verdict == aggregate_results(results)
  IN  Put(Put(Put(Put(message, "fraud_status",
                      IF verdict.is_fraudulent THEN "FRAUDULENT" ELSE "CLEAN"),
                  "fraud_score", verdict.confidence),
              "fraud_reasons",
              Get(message, "fraud_reasons", <<>>)
                \o verdict.aggregated_reasons),
          "fraud_analysis", results)

\* lines 114-125: the record with its verdict attached
Annotate(message, results) ==
  LET verdict == aggregate_results(results)
      status == IF aggregator
                  THEN (IF verdict.is_fraudulent THEN "FRAUDULENT"
                                                 ELSE "CLEAN")
                  ELSE "PENDING"
      score == IF aggregator THEN verdict.confidence ELSE 0
      reasons == IF aggregator THEN verdict.aggregated_reasons ELSE <<>>
  IN  Put(Put(Put(Put(message, "fraud_status", status),
                  "fraud_score", score),
              "fraud_reasons", reasons),
          "fraud_analysis", results)

\* lines 113-127: aggregate, annotate the record, append it to the output
Aggregate ==
  /\ pc = "aggregate"
  /\ LET item == future_to_msg[k]
     IN  /\ messages' = [messages EXCEPT
                           ![item.message] = Annotate(@, agent_results)]
         /\ processed_messages' = Append(processed_messages, item.message)
  /\ k' = k + 1
  /\ j' = 1
  /\ agent_results' = <<>>
  /\ pc' = IF k = Len(future_to_msg) THEN "shutdown" ELSE "collect"
  /\ UNCHANGED <<i, work_queue, running, future_result, future_to_msg,
                 exception, delivered, timed_out>>
  /\ UNCHANGED agg_vars
  /\ UNCHANGED rerun_vars
  /\ UNCHANGED scorer_vars
  /\ UNCHANGED eo_vars
  /\ UNCHANGED orch_vars

\* leaving the with block (line 85): executor.shutdown(wait=True) returns
\* when every submitted task has run; then the call returns (line 137) or
\* the pending exception propagates
Shutdown ==
  /\ pc = "shutdown"
  /\ work_queue = <<>>
  /\ running = {}
  /\ pc' = IF exception = NoException THEN "returned" ELSE "raised"
  /\ UNCHANGED <<messages, i, work_queue, running, future_result,
                 future_to_msg, k, j, agent_results, processed_messages,
                 exception, delivered, timed_out>>
  /\ UNCHANGED agg_vars
  /\ UNCHANGED rerun_vars
  /\ UNCHANGED scorer_vars
  /\ UNCHANGED eo_vars
  /\ UNCHANGED orch_vars

(***************************************************************************)
(* The executor's worker threads.                                          *)
(***************************************************************************)
\* an idle worker takes the oldest task of the queue
StartTask ==
  /\ work_queue # <<>>
  /\ Cardinality(running) < max_workers
  /\ running' = running \cup {Head(work_queue)}
  /\ work_queue' = Tail(work_queue)
  /\ UNCHANGED <<messages, pc, i, future_result, future_to_msg, k, j,
                 agent_results, processed_messages, exception, delivered,
                 timed_out>>
  /\ UNCHANGED agg_vars
  /\ UNCHANGED rerun_vars
  /\ UNCHANGED scorer_vars
  /\ UNCHANGED eo_vars
  /\ UNCHANGED orch_vars

\* faulty variant: every task works on the first record of the batch
FinishTask_first(t) ==
  /\ t \in running
  /\ running' = running \ {t}
  /\ future_result' =
       Put(future_result, t,
           _process_message(messages[1], list_of_agents[t[2]]))
  /\ UNCHANGED <<messages, pc, i, work_queue, future_to_msg, k, j,
                 agent_results, processed_messages, exception, delivered,
                 timed_out>>
  /\ UNCHANGED agg_vars
  /\ UNCHANGED rerun_vars
  /\ UNCHANGED scorer_vars
  /\ UNCHANGED eo_vars
  /\ UNCHANGED orch_vars

\* a worker runs _process_message(message, agent) to its end and sets the
\* future's result
FinishTask(t) ==
  /\ t \in running
  /\ running' = running \ {t}
  /\ future_result' =
       Put(future_result, t,
           _process_message(messages[t[1]], list_of_agents[t[2]]))
  /\ UNCHANGED <<messages, pc, i, work_queue, future_to_msg, k, j,
                 agent_results, processed_messages, exception, delivered,
                 timed_out>>
  /\ UNCHANGED agg_vars
  /\ UNCHANGED rerun_vars
  /\ UNCHANGED scorer_vars
  /\ UNCHANGED eo_vars
  /\ UNCHANGED orch_vars

Next ==
  \/ SubmitMessage
  \/ BeginCollect
  \/ CollectResult
  \/ CollectTimeout
  \/ Aggregate
  \/ Shutdown
  \/ StartTask
  \/ \E t \in running : FinishTask(t)

Spec == Init /\ [][Next]_vars

(***************************************************************************)
(* A second call of process_batch_parallel on the same list, whose dicts   *)
(* the first call annotated in place.  The locals of the call and the pool *)
(* are new; first_run keeps the records as the first call left them.  In   *)
(* SpecRerun every task finishes within the 5 seconds of its wait: no      *)
(* CollectTimeout step.                                                    *)
(***************************************************************************)
Rerun ==
  /\ pc = "returned"
  /\ run = 1
  /\ run' = 2
  /\ first_run' = messages
  /\ pc' = "submit"
  /\ i' = 1
  /\ work_queue' = <<>>
  /\ running' = {}
  /\ future_result' = EmptyDict
  /\ future_to_msg' = <<>>
  /\ k' = 1
  /\ j' = 1
  /\ agent_results' = <<>>
  /\ processed_messages' = <<>>
  /\ delivered' = {}
  /\ UNCHANGED <<messages, exception, timed_out>>
  /\ UNCHANGED agg_vars
  /\ UNCHANGED scorer_vars
  /\ UNCHANGED eo_vars
  /\ UNCHANGED orch_vars

NextRerun ==
  \/ SubmitMessage
  \/ BeginCollect
  \/ CollectResult
  \/ Aggregate
  \/ Shutdown
  \/ StartTask
  \/ \E t \in running : FinishTask(t)
  \/ Rerun

SpecRerun == Init /\ [][NextRerun]_vars

\* what process_batch_parallel returns: the dicts processed_messages refers to
Returned == [n \in DOMAIN processed_messages |-> messages[processed_messages[n]]]

TypeOK ==
  /\ pc \in {"submit", "collect", "aggregate", "shutdown", "returned", "raised"}
  /\ i \in 1..(Len(messages) + 1)
  /\ running \subseteq Tasks
  /\ Cardinality(running) <= max_workers
  /\ delivered \cap timed_out = {}

(***************************************************************************)
(* aggregate_results called on its own, on every short list of results.    *)
(***************************************************************************)
AggInputs ==
  {[agent |-> x[1], risk_score |-> s, fraud_reasons |-> x[2]] :
     x \in {<<"FraudAmountDetectionAgent", <<>>>>,
            <<"FraudPatternDetectionAgent",
              << <<"Same sender and receiver BIC">> >> >>},
     s \in 0..MaxScore}

InitAgg ==
  /\ fraud_results \in SeqsUpTo(AggInputs, MaxResults)
  /\ aggregated = NoVerdict
  /\ agg_pc = "call"
  /\ BatchIdle
  /\ ScorerIdle
  /\ EvalIdle
  /\ OrchIdle

AggregateCall ==
  /\ agg_pc = "call"
  /\ aggregated' = aggregate_results(fraud_results)
  /\ agg_pc' = "done"
  /\ UNCHANGED fraud_results
  /\ UNCHANGED batch_vars
  /\ UNCHANGED rerun_vars
  /\ UNCHANGED scorer_vars
  /\ UNCHANGED eo_vars
  /\ UNCHANGED orch_vars

NextAgg == AggregateCall

SpecAgg == InitAgg /\ [][NextAgg]_vars

(***************************************************************************)
(* Properties of process_batch_parallel (specification Spec).              *)
(***************************************************************************)
Annotated(p) == "fraud_analysis" \in DOMAIN messages[p]

\* the results future.result() handed over for record p, in scorer order
Collected(p) ==
  LET got == SelectSeq([a \in 1..NumAgents |-> <<p, a>>],
                       LAMBDA t : t \in delivered)
  IN  [n \in 1..Len(got) |-> future_result[got[n]]]

\* C1: when the call has returned, the n-th returned record is the n-th
\* record of the input batch, for every n.
C1_InputOrder ==
  pc = "returned" =>
    \A n \in DOMAIN processed_messages : processed_messages[n] = n

\* C2: when the call has returned, it returns as many records as the batch
\* holds and every input record is among them, annotated.
C2_OnePerInput ==
  pc = "returned" =>
    /\ Len(processed_messages) = Len(messages)
    /\ \A p \in DOMAIN messages :
          /\ Annotated(p)
          /\ \E n \in DOMAIN processed_messages : processed_messages[n] = p

\* C3: a record whose wait on a scorer timed out still has, in its
\* fraud_analysis, a slot for that scorer with the scorer's name, score 0 and
\* no reasons, next to the results of its other scorers.
C3_TimeoutSlot ==
  \A t \in timed_out :
     Annotated(t[1]) =>
       LET analysis == messages[t[1]]["fraud_analysis"]
       IN  /\ Len(analysis) = NumAgents
           /\ \E n \in DOMAIN analysis :
                 /\ analysis[n].agent = list_of_agents[t[2]]
                 /\ analysis[n].risk_score = 0
                 /\ analysis[n].fraud_reasons = <<>>

\* C4: the average of an annotated record is taken over the number of
\* registered scorers, a failed or timed-out slot counting as 0: the record
\* is FRAUDULENT only if the sum of the collected scores reaches the threshold
\* times the number of scorers, and its fraud_score is that average.
C4_FailureCountsAsZero ==
  \A p \in DOMAIN messages :
     Annotated(p) =>
       LET total == total_risk(messages[p]["fraud_analysis"])
       IN  /\ messages[p]["fraud_status"] = "FRAUDULENT"
                => total >= threshold * NumAgents
           /\ messages[p]["fraud_score"]
                = round(total * 100 * 100, ScoreUnit * NumAgents)

\* C5: no exception ever propagates out of process_batch_parallel.
C5_NeverAborts == exception = NoException /\ pc # "raised"

\* C6: a record carries its verdict only when each of its scorer slots has
\* delivered its result or has timed out.
C6_AllOfBarrier ==
  \A p \in DOMAIN messages :
     Annotated(p) =>
       \A a \in 1..NumAgents : <<p, a>> \in delivered \cup timed_out

\* C6 witness: an annotated record with a delivered and a timed-out slot,
\* while the call is still collecting other records
C6_Witness ==
  /\ pc = "collect"
  /\ \E p \in DOMAIN messages :
        /\ Annotated(p)
        /\ \E a \in 1..NumAgents : <<p, a>> \in timed_out
        /\ \E a \in 1..NumAgents : <<p, a>> \in delivered

\* C7: every returned record has fraud_analysis equal to the results
\* collected for it in scorer order, fraud_status FRAUDULENT or CLEAN as the
\* aggregate verdict of those results says, fraud_score equal to the
\* verdict's confidence and fraud_reasons equal to its aggregated reasons.
C7_VerdictFields ==
  pc = "returned" =>
    \A n \in DOMAIN processed_messages :
       LET p == processed_messages[n]
           record == messages[p]
           verdict == aggregate_results(Collected(p))
       IN  /\ record["fraud_analysis"] = Collected(p)
           /\ record["fraud_status"]
                = (IF verdict.is_fraudulent THEN "FRAUDULENT" ELSE "CLEAN")
           /\ record["fraud_score"] = verdict.confidence
           /\ record["fraud_reasons"] = verdict.aggregated_reasons

\* C7 witness: a returned batch with a FRAUDULENT and a CLEAN record
C7_Witness ==
  /\ pc = "returned"
  /\ \E n \in DOMAIN Returned : Returned[n]["fraud_status"] = "FRAUDULENT"
  /\ \E n \in DOMAIN Returned :
        /\ Returned[n]["fraud_status"] = "CLEAN"
        /\ Returned[n]["fraud_reasons"] # <<>>

(***************************************************************************)
(* Properties of aggregate_results (specification SpecAgg).                *)
(***************************************************************************)
RECURSIVE SumScores(_, _)
SumScores(R, n) == IF n = 0 THEN 0 ELSE SumScores(R, n - 1) + R[n].risk_score

Abs(x) == IF x < 0 THEN -x ELSE x

\* C8: for a non-empty list R, is_fraudulent is true exactly when the mean of
\* the scores is at least 0.5, i.e. twice the sum is at least Len(R).
C8_ThresholdInclusive ==
  (agg_pc = "done" /\ fraud_results # <<>>) =>
    (aggregated.is_fraudulent
       <=> 2 * SumScores(fraud_results, Len(fraud_results))
             >= ScoreUnit * Len(fraud_results))

\* C8 witness: three results whose mean is exactly 0.5, classified fraudulent
C8_Witness ==
  /\ agg_pc = "done"
  /\ Len(fraud_results) = 3
  /\ 2 * SumScores(fraud_results, 3) = ScoreUnit * 3
  /\ aggregated.is_fraudulent

\* C9: for a non-empty list R, confidence is the hundredth nearest to
\* 100 * mean and lies in [0, 100]; total_risk_score is the thousandth
\* nearest to the mean and lies in [0, 1].
C9_Rounding ==
  (agg_pc = "done" /\ fraud_results # <<>>) =>
    LET total == SumScores(fraud_results, Len(fraud_results))
        den == ScoreUnit * Len(fraud_results)
    IN  /\ 2 * Abs(aggregated.confidence * den - total * 10000) <= den
        /\ aggregated.confidence \in 0..10000
        /\ 2 * Abs(aggregated.total_risk_score * den - total * 1000) <= den
        /\ aggregated.total_risk_score \in 0..1000

\* C9 witness: a mean that is not a whole number of thousandths (2/30)
C9_Witness ==
  /\ agg_pc = "done"
  /\ Len(fraud_results) = 3
  /\ SumScores(fraud_results, 3) = 2
  /\ aggregated.confidence = 667
  /\ aggregated.total_risk_score = 67

\* C10: for the empty list, aggregate_results returns the default verdict
\* (not fraudulent, confidence 0, total risk score 0, no reasons) and does
\* not raise.
C10_EmptyDefault ==
  (agg_pc = "done" /\ fraud_results = <<>>) =>
    aggregated = [is_fraudulent |-> FALSE, confidence |-> 0,
                  total_risk_score |-> 0, aggregated_reasons |-> <<>>]

\* C10 witness: the call on the empty list has returned
C10_Witness == agg_pc = "done" /\ fraud_results = <<>> /\ ~IsRaised(aggregated)

(***************************************************************************)
(* Reasons of a record (specification Spec).                               *)
(***************************************************************************)
\* the reasons of the scorers a, a+1, ... whose result was delivered for
\* record p, in registration order, each paired with its scorer's name
RECURSIVE ReasonsInOrder(_, _)
ReasonsInOrder(p, a) ==
  IF a > NumAgents THEN <<>>
  ELSE LET outcome == analyze(list_of_agents[a], messages[p])
           reasons == IF <<p, a>> \in delivered /\ ~IsRaised(outcome)
                        THEN outcome.fraud_reasons ELSE <<>>
       IN  [n \in 1..Len(reasons) |-> <<list_of_agents[a], reasons[n]>>]
             \o ReasonsInOrder(p, a + 1)

\* C11: the fraud_reasons of an annotated record are the reasons of its
\* delivered scorer results, scorer by scorer in registration order (Amount,
\* Pattern, Geographic) and in each scorer's own order, each prefixed with
\* the scorer's name, whatever the order in which the tasks finished.
C11_ReasonsConcatenated ==
  \A p \in DOMAIN messages :
     Annotated(p) => messages[p]["fraud_reasons"] = ReasonsInOrder(p, 1)

\* C11 witness: a returned record with reasons of two scorers, two of the
\* first and three of the second
C11_Witness ==
  /\ pc = "returned"
  /\ \E p \in DOMAIN messages :
        /\ Annotated(p)
        /\ Len(messages[p]["fraud_reasons"]) = 5
        /\ messages[p]["fraud_reasons"][2][1] = "FraudAmountDetectionAgent"
        /\ messages[p]["fraud_reasons"][3][1] = "FraudPatternDetectionAgent"

(***************************************************************************)
(* analyze called on its own, on records built from the field values       *)
(* below.  Each value comes with what it stands for, written by hand: the  *)
(* magnitude num/den of an amount, the flagged substrings of a code (in    *)
(* list order, ignoring case), its country code and the risk set the       *)
(* country is in, the keywords of a memo.                                  *)
(***************************************************************************)
Absent == <<"<absent>">>

AmountCases ==
  { [text |-> <<"5", "0", "0", "0", " ", "U", "S", "D">>,
     parsable |-> TRUE, num |-> 5000, den |-> 1],
    [text |-> <<"1", "0", "0", "0", "0", " ", "U", "S", "D">>,
     parsable |-> TRUE, num |-> 10000, den |-> 1],
    [text |-> <<"1", "5", "0", "0", "0", ".", "0", "0", " ", "U", "S", "D">>,
     parsable |-> TRUE, num |-> 15000, den |-> 1],
    [text |-> <<"1", "5", "0", "0", "0", ".", "5", "0", " ", "U", "S", "D">>,
     parsable |-> TRUE, num |-> 30001, den |-> 2],
    [text |-> <<"1", "0", "0", "0", "0", "0", ".", "5", " ", "U", "S", "D">>,
     parsable |-> TRUE, num |-> 200001, den |-> 2],
    [text |-> <<"2", "0", "0", "0", "0", "0", " ", "U", "S", "D">>,
     parsable |-> TRUE, num |-> 200000, den |-> 1],
    [text |-> <<"2", "5", "0", ".", "7", "5", " ", "E", "U", "R">>,
     parsable |-> TRUE, num |-> 1003, den |-> 4],
    [text |-> <<"0", ".", "0", "0", " ", "U", "S", "D">>,
     parsable |-> TRUE, num |-> 0, den |-> 1],
    [text |-> <<>>,
     parsable |-> FALSE, num |-> 0, den |-> 1],
    [text |-> <<"U", "S", "D">>,
     parsable |-> FALSE, num |-> 0, den |-> 1],
    [text |-> <<"1", ".", "2", ".", "3", " ", "U", "S", "D">>,
     parsable |-> FALSE, num |-> 0, den |-> 1],
    [text |-> <<"2", "0", ".", "0", "0", "0", ".", "0", "0", " ", "U", "S", "D">>,
     parsable |-> FALSE, num |-> 0, den |-> 1],
    [text |-> None,
     parsable |-> FALSE, num |-> 0, den |-> 1] }

BicCases ==
  { [text |-> <<"T", "E", "S", "T", "U", "S", "3", "3">>,
     flagged |-> <<<<"T", "E", "S", "T">>>>, country |-> <<"U", "S">>, risk |-> "none"],
    [text |-> <<"t", "e", "s", "t", "g", "b", "2", "2">>,
     flagged |-> <<<<"T", "E", "S", "T">>>>, country |-> <<"G", "B">>, risk |-> "none"],
    [text |-> <<"F", "A", "K", "E", "I", "R", "9", "9">>,
     flagged |-> <<<<"F", "A", "K", "E">>>>, country |-> <<"I", "R">>, risk |-> "high"],
    [text |-> <<"b", "a", "n", "k", "r", "u", "m", "m">>,
     flagged |-> <<>>, country |-> <<"R", "U">>, risk |-> "high"],
    [text |-> <<"B", "A", "N", "K", "C", "N", "B", "J">>,
     flagged |-> <<>>, country |-> <<"C", "N">>, risk |-> "medium"],
    [text |-> <<"D", "E", "U", "T", "D", "E", "F", "F">>,
     flagged |-> <<>>, country |-> <<"D", "E">>, risk |-> "none"],
    [text |-> <<"T", "E", "S", "T", "9", "9", "9", "0">>,
     flagged |-> <<<<"T", "E", "S", "T">>, <<"9", "9", "9">>>>, country |-> <<"9", "9">>, risk |-> "none"],
    [text |-> <<"D", "E", "M", "O", "9">>,
     flagged |-> <<<<"D", "E", "M", "O">>>>, country |-> <<>>, risk |-> "none"],
    [text |-> <<>>,
     flagged |-> <<>>, country |-> <<>>, risk |-> "none"] }

RemittanceCases ==
  { [text |-> <<"U", "r", "g", "e", "n", "t">>,
     keywords |-> <<<<"u", "r", "g", "e", "n", "t">>>>],
    [text |-> <<"s", "e", "c", "r", "e", "t", ",", " ", "U", "R", "G", "E", "N", "T">>,
     keywords |-> <<<<"u", "r", "g", "e", "n", "t">>, <<"s", "e", "c", "r", "e", "t">>>>],
    [text |-> <<"r", "e", "n", "t">>,
     keywords |-> <<>>],
    [text |-> <<>>,
     keywords |-> <<>>],
    [text |-> None,
     keywords |-> <<>>] }

Texts(cases) == {c.text : c \in cases}

\* the dict holding the given fields, without the keys whose value is Absent
MakeMessage(amount, sender_bic, receiver_bic, remittance_info) ==
  LET all == [message_id |-> "MSG001", amount |-> amount,
              sender_bic |-> sender_bic, receiver_bic |-> receiver_bic,
              remittance_info |-> remittance_info]
  IN  [key \in {"message_id"} \cup
                 {x \in DOMAIN all \ {"message_id"} : all[x] # Absent}
        |-> all[key]]

InitScorer ==
  /\ \E amount \in Texts(AmountCases) \cup {Absent},
        sender_bic \in Texts(BicCases) \cup {None, Absent},
        receiver_bic \in Texts(BicCases) \cup {None, Absent},
        remittance_info \in Texts(RemittanceCases) \cup {Absent} :
        scorer_message =
          MakeMessage(amount, sender_bic, receiver_bic, remittance_info)
  /\ scorer \in Range(list_of_agents)
  /\ score_result = NoResult
  /\ scorer_pc = "call"
  /\ BatchIdle
  /\ AggIdle
  /\ EvalIdle
  /\ OrchIdle

\* result = agent.analyze(message)
AnalyzeCall ==
  /\ scorer_pc = "call"
  /\ score_result' = analyze(scorer, scorer_message)
  /\ scorer_pc' = "done"
  /\ UNCHANGED <<scorer_message, scorer>>
  /\ UNCHANGED batch_vars
  /\ UNCHANGED rerun_vars
  /\ UNCHANGED agg_vars
  /\ UNCHANGED eo_vars
  /\ UNCHANGED orch_vars

NextScorer == AnalyzeCall

SpecScorer == InitScorer /\ [][NextScorer]_vars

Returned_analyze == scorer_pc = "done" /\ ~IsRaised(score_result)

\* C12: the risk_score a scorer returns lies in [0.0, 1.0] (0..MaxScore
\* tenths) for every record, whatever number of rules fire.
C12_ScoreInUnitInterval ==
  Returned_analyze => score_result.risk_score \in 0..MaxScore

\* the pattern scorer on a record whose rules add up to 1.3: a flagged
\* substring, equal codes and two keywords
C12_Witness ==
  /\ Returned_analyze
  /\ scorer = "FraudPatternDetectionAgent"
  /\ Len(score_result.fraud_reasons) = 4
  /\ score_result.risk_score = MaxScore

\* C13: analyze of each scorer never raises to its caller, whatever the
\* record's amount, codes and memo are (missing, empty, null, malformed).
C13_NeverRaises ==
  scorer_pc = "done" => ~IsRaised(score_result)

\* the keys process_batch_parallel writes on a record (lines 116-118, 125)
fraud_keys == {"fraud_status", "fraud_score", "fraud_reasons", "fraud_analysis"}

\* the record without the keys process_batch_parallel writes
InputFields(message) ==
  [key \in DOMAIN message \ fraud_keys |-> message[key]]

\* C15: no step of process_batch_parallel or of a scorer task changes an
\* input field of a record; the only keys a step adds or rewrites are
\* fraud_status, fraud_score, fraud_reasons and fraud_analysis, and only the
\* calling thread's annotation step (never a task) writes to a record.
C15_Frame ==
  [][/\ Len(messages') = Len(messages)
     /\ \A p \in DOMAIN messages :
           InputFields(messages'[p]) = InputFields(messages[p])
     /\ messages' # messages => (pc = "aggregate" /\ k' = k + 1)]_vars

\* a record carries its verdict next to its input fields
C15_Witness ==
  /\ pc = "returned"
  /\ \E p \in DOMAIN messages :
        /\ Annotated(p)
        /\ InputFields(messages[p]) = MsgFraud
        /\ DOMAIN messages[p] = DOMAIN MsgFraud \cup fraud_keys

\* the (record, scorer) invocation raises inside the pool
Raises(p, a) ==
  IsRaised(analyze(list_of_agents[a], InputFields(messages[p])))

\* C20: when a (record, scorer) invocation of the batch raises inside the
\* pool, the fraud_analysis of that record has, in the scorer's registration
\* position, a slot with the scorer's name, risk score 0 and no reasons, and
\* every other slot of every annotated record is what its scorer returns.
C20_FailureIsolated ==
  (\E p \in DOMAIN messages, a \in 1..NumAgents : Raises(p, a)) =>
     \A q \in DOMAIN messages :
        Annotated(q) =>
          LET analysis == messages[q]["fraud_analysis"]
          IN  /\ Len(analysis) = NumAgents
              /\ \A b \in 1..NumAgents :
                    IF Raises(q, b)
                      THEN /\ analysis[b].agent = list_of_agents[b]
                           /\ analysis[b].risk_score = 0
                           /\ analysis[b].fraud_reasons = <<>>
                      ELSE analysis[b] =
                             _process_message(InputFields(messages[q]),
                                              list_of_agents[b])

\* C21: once every scorer slot of every record has delivered a result or
\* timed out, nothing holds the call back: it does not wait for a task that
\* is still queued or running.
C21_ReturnNotDelayed ==
  (/\ pc = "shutdown"
   /\ exception = NoException
   /\ \A p \in DOMAIN messages, a \in 1..NumAgents :
         <<p, a>> \in delivered \cup timed_out)
    => (work_queue = <<>> /\ running = {})

\* the position of a scorer in list_of_agents
AgentIndex(agent) == CHOOSE a \in 1..NumAgents : list_of_agents[a] = agent

\* C22: every result in an annotated record's fraud_analysis is what the
\* scorer it names returns for that same record, comes from a slot whose
\* wait did not time out, and appears once, in registration order; the
\* record's verdict is the aggregate of exactly these results.  A task that
\* finishes after its wait timed out contributes nothing.
C22_LateResultUnused ==
  \A p \in DOMAIN messages :
     Annotated(p) =>
       LET analysis == messages[p]["fraud_analysis"]
           verdict == aggregate_results(analysis)
       IN  /\ \A n \in DOMAIN analysis :
                 LET a == AgentIndex(analysis[n].agent)
                 IN  /\ analysis[n] =
                          _process_message(InputFields(messages[p]),
                                           list_of_agents[a])
                     /\ <<p, a>> \notin timed_out
                     /\ n > 1 => AgentIndex(analysis[n - 1].agent) < a
           /\ messages[p]["fraud_status"] =
                (IF verdict.is_fraudulent THEN "FRAUDULENT" ELSE "CLEAN")
           /\ messages[p]["fraud_score"] = verdict.confidence
           /\ messages[p]["fraud_reasons"] = verdict.aggregated_reasons

\* the call has returned and a task whose wait timed out has finished since
C22_Witness ==
  /\ pc = "returned"
  /\ \E t \in timed_out :
        /\ t \in DOMAIN future_result
        /\ future_result[t].risk_score > 0
        /\ Annotated(t[1])
        /\ Len(messages[t[1]]["fraud_analysis"]) = NumAgents - 1

(***************************************************************************)
(* Properties of a second call on the same batch (specification SpecRerun).*)
(***************************************************************************)
\* the verdict fields a record carries
VerdictOf(message) ==
  [key \in DOMAIN message \cap {"fraud_status", "fraud_score", "fraud_reasons"}
     |-> message[key]]

\* C14: when a second call on the batch the first call annotated has
\* returned, no wait having timed out in either call, every record carries
\* the same fraud_status, fraud_score and fraud_reasons as after the first.
C14_Idempotent ==
  (pc = "returned" /\ run = 2) =>
     \A p \in DOMAIN messages : VerdictOf(messages[p]) = VerdictOf(first_run[p])

C14_Witness ==
  /\ pc = "returned"
  /\ run = 2
  /\ \E p \in DOMAIN messages :
        /\ "fraud_status" \in DOMAIN first_run[p]
        /\ messages[p]["fraud_status"] = "FRAUDULENT"
        /\ Len(messages[p]["fraud_reasons"]) = 5
        /\ Len(first_run[p]["fraud_reasons"]) = 5

(***************************************************************************)
(* Properties of the scorers (specification SpecScorer).  What a field     *)
(* value stands for is taken from the tables AmountCases, BicCases and     *)
(* RemittanceCases, not from the operators the scorers are built of.       *)
(***************************************************************************)
\* the table entry of the record's amount; message.get('amount', '0')
AmountCase(message) ==
  IF "amount" \in DOMAIN message
    THEN CHOOSE c \in AmountCases : c.text = message["amount"]
    ELSE [text |-> <<"0">>, parsable |-> TRUE, num |-> 0, den |-> 1]

\* the first element (the fixed text) of every reason
Templates(fraud_reasons) ==
  [n \in DOMAIN fraud_reasons |-> fraud_reasons[n][1]]

\* C16: for a parsable amount of magnitude m = num / den, the amount scorer
\* returns 0.3 if m > 10000, plus 0.2 if m > 0 is a multiple of 1000, plus
\* 0.1 if m > 100000 has a fractional part, with one reason per rule that
\* fired, in rule order; m = 5000 gives 0.2 and the single round-amount
\* reason, m = 15000 a high-amount reason and at least 0.3.
C16_AmountRules ==
  (Returned_analyze /\ scorer = "FraudAmountDetectionAgent"
     /\ AmountCase(scorer_message).parsable) =>
    LET m == AmountCase(scorer_message)
        high == m.num > 10000 * m.den
        multiple == m.num > 0 /\ m.num % (1000 * m.den) = 0
        fraction == m.num > 100000 * m.den /\ m.num % m.den # 0
    IN  /\ score_result.risk_score =
             (IF high THEN 3 ELSE 0) + (IF multiple THEN 2 ELSE 0)
               + (IF fraction THEN 1 ELSE 0)
        /\ Templates(score_result.fraud_reasons) =
             (IF high THEN <<"High amount transaction: ">> ELSE <<>>)
               \o (IF multiple THEN <<"Suspiciously round amount: ">>
                                ELSE <<>>)
               \o (IF fraction
                     THEN <<"Large amount with unusual decimal precision">>
                     ELSE <<>>)
        /\ (m.num = 5000 /\ m.den = 1) =>
              /\ score_result.risk_score = 2
              /\ Templates(score_result.fraud_reasons) =
                   <<"Suspiciously round amount: ">>
        /\ (m.num = 15000 /\ m.den = 1) =>
              /\ score_result.risk_score >= 3
              /\ \E n \in DOMAIN score_result.fraud_reasons :
                    score_result.fraud_reasons[n][1] =
                      "High amount transaction: "

\* the amount scorer on 100000.5: rules 1 and 3 fired, rule 2 did not
C16_Witness ==
  /\ Returned_analyze
  /\ scorer = "FraudAmountDetectionAgent"
  /\ AmountCase(scorer_message).num = 200001
  /\ AmountCase(scorer_message).den = 2
  /\ score_result.risk_score = 4
  /\ Len(score_result.fraud_reasons) = 2

\* the table entry of a code of the record; message.get(key, '')
BicCase(message, key) ==
  IF key \in DOMAIN message
    THEN CHOOSE c \in BicCases : c.text = message[key]
    ELSE CHOOSE c \in BicCases : c.text = <<>>

\* the table entry of the record's memo; message.get('remittance_info', '')
RemittanceCase(message) ==
  IF "remittance_info" \in DOMAIN message
    THEN CHOOSE c \in RemittanceCases : c.text = message["remittance_info"]
    ELSE CHOOSE c \in RemittanceCases : c.text = <<>>

\* the flagged substrings found in the sender code, the receiver code or both
FlaggedInEither(message) ==
  Range(BicCase(message, "sender_bic").flagged)
    \cup Range(BicCase(message, "receiver_bic").flagged)

SameBicReason == <<"Same sender and receiver BIC">>

PatternReturned ==
  Returned_analyze /\ scorer = "FraudPatternDetectionAgent"

\* C17: when the sender and receiver codes are equal and not empty, the
\* pattern scorer includes the reason 'Same sender and receiver BIC' and
\* returns at least 0.5; when a code is empty or the codes differ, the
\* reason is absent and the score is that of the other rules alone.
C17_SameBic ==
  PatternReturned =>
    LET sender == BicCase(scorer_message, "sender_bic").text
        receiver == BicCase(scorer_message, "receiver_bic").text
        other == 4 * Cardinality(FlaggedInEither(scorer_message))
                   + 2 * Len(RemittanceCase(scorer_message).keywords)
        present == \E n \in DOMAIN score_result.fraud_reasons :
                      score_result.fraud_reasons[n] = SameBicReason
    IN  IF sender # <<>> /\ sender = receiver
          THEN /\ present
               /\ score_result.risk_score >= 5
               /\ score_result.risk_score = Min(other + 5, 10)
          ELSE /\ ~present
               /\ score_result.risk_score = Min(other, 10)

\* equal codes and no other rule: exactly 0.5 and the one reason
C17_Witness ==
  /\ PatternReturned
  /\ BicCase(scorer_message, "sender_bic").text = <<"D", "E", "U", "T", "D", "E", "F", "F">>
  /\ BicCase(scorer_message, "receiver_bic").text = <<"D", "E", "U", "T", "D", "E", "F", "F">>
  /\ score_result.risk_score = 5
  /\ score_result.fraud_reasons = <<SameBicReason>>

GeographicReturned ==
  Returned_analyze /\ scorer = "FraudGeographicRiskAgent"

\* C18: when both codes yield a country code, the geographic scorer adds the
\* 0.3 asymmetry bonus (and its reason) exactly when one side is high-risk
\* and the other side is in neither set: high-risk sender with an unlisted
\* receiver scores 0.7, high with medium 0.6, high with high 0.8.
C18_AsymmetryBonus ==
  LET sender == BicCase(scorer_message, "sender_bic")
      receiver == BicCase(scorer_message, "receiver_bic")
  IN  (GeographicReturned /\ sender.country # <<>> /\ receiver.country # <<>>)
        =>
        LET asymmetric ==
              \/ sender.risk = "high" /\ receiver.risk = "none"
              \/ receiver.risk = "high" /\ sender.risk = "none"
            listed(c) == IF c.risk = "high" THEN 4
                         ELSE IF c.risk = "medium" THEN 2 ELSE 0
            bonus == \E n \in DOMAIN score_result.fraud_reasons :
                        score_result.fraud_reasons[n][1] =
                          "Unusual risk level combination: "
        IN  /\ bonus <=> asymmetric
            /\ score_result.risk_score =
                 listed(sender) + listed(receiver)
                   + (IF asymmetric THEN 3 ELSE 0)
            /\ (sender.risk = "high" /\ receiver.risk = "none") =>
                  score_result.risk_score = 7
            /\ (sender.risk = "high" /\ receiver.risk = "medium") =>
                  score_result.risk_score = 6
            /\ (sender.risk = "high" /\ receiver.risk = "high") =>
                  score_result.risk_score = 8

\* high-risk sender, unlisted receiver: 0.4 + 0.3
C18_Witness ==
  /\ GeographicReturned
  /\ BicCase(scorer_message, "sender_bic").risk = "high"
  /\ BicCase(scorer_message, "receiver_bic").country = <<"D", "E">>
  /\ score_result.risk_score = 7
  /\ Len(score_result.fraud_reasons) = 2

\* the reasons of the flagged-substring rule that name the given substring
PatternReasons(fraud_reasons, pattern) ==
  SelectSeq(fraud_reasons,
            LAMBDA reason :
              reason = <<"Test/fake pattern detected in BIC: ", pattern>>)

\* C19, as stated: a flagged substring that occurs in both the sender code
\* and the receiver code (ignoring case) contributes twice, two reasons and
\* +0.4 for each occurrence before the clamp.
C19_TwicePerPattern ==
  PatternReturned =>
    LET sender == BicCase(scorer_message, "sender_bic")
        receiver == BicCase(scorer_message, "receiver_bic")
    IN  /\ \A pattern \in Range(sender.flagged) \cap Range(receiver.flagged) :
              Len(PatternReasons(score_result.fraud_reasons, pattern)) = 2
        /\ score_result.risk_score =
             Min(4 * (Len(sender.flagged) + Len(receiver.flagged))
                   + (IF sender.text # <<>> /\ sender.text = receiver.text
                        THEN 5 ELSE 0)
                   + 2 * Len(RemittanceCase(scorer_message).keywords),
                 10)

\* C19, amended: a flagged substring contributes +0.4 and one reason once,
\* whether it occurs in the sender code, the receiver code or both; the
\* match ignores the case of both codes; the reasons follow the order of the
\* list of flagged substrings.
C19_OncePerPattern ==
  PatternReturned =>
    LET flagged == FlaggedInEither(scorer_message)
        sender == BicCase(scorer_message, "sender_bic").text
        receiver == BicCase(scorer_message, "receiver_bic").text
        expected == SelectSeq(high_risk_patterns,
                              LAMBDA pattern : pattern \in flagged)
    IN  /\ \A n \in DOMAIN high_risk_patterns :
              Len(PatternReasons(score_result.fraud_reasons,
                                 high_risk_patterns[n])) =
                IF high_risk_patterns[n] \in flagged THEN 1 ELSE 0
        /\ \A n \in DOMAIN expected :
              score_result.fraud_reasons[n] =
                <<"Test/fake pattern detected in BIC: ", expected[n]>>
        /\ score_result.risk_score =
             Min(4 * Cardinality(flagged)
                   + (IF sender # <<>> /\ sender = receiver THEN 5 ELSE 0)
                   + 2 * Len(RemittanceCase(scorer_message).keywords),
                 10)

\* TEST in an upper-case sender code and in a lower-case receiver code: one
\* reason and 0.4
C19_Witness ==
  /\ PatternReturned
  /\ BicCase(scorer_message, "sender_bic").text = <<"T", "E", "S", "T", "U", "S", "3", "3">>
  /\ BicCase(scorer_message, "receiver_bic").text = <<"t", "e", "s", "t", "g", "b", "2", "2">>
  /\ score_result.risk_score = 4
  /\ Len(score_result.fraud_reasons) = 1

AmountCalled ==
  scorer_pc = "done" /\ scorer = "FraudAmountDetectionAgent"

ListedScore(c) ==
  IF c.risk = "high" THEN 4 ELSE IF c.risk = "medium" THEN 2 ELSE 0

\* the reason a side gets for its country by the table, if any
ListedReasons(c, side, level) ==
  IF c.risk = level
    THEN << <<IF level = "high"
                THEN (IF side = "sender" THEN "High-risk sender country: "
                                         ELSE "High-risk receiver country: ")
                ELSE (IF side = "sender" THEN "Medium-risk sender country: "
                                         ELSE "Medium-risk receiver country: "),
              c.country>> >>
    ELSE <<>>

BonusReasons(fraud_reasons) ==
  SelectSeq(fraud_reasons,
            LAMBDA reason : reason[1] = "Unusual risk level combination: ")

\* C24: in the geographic scorer each side adds 0.4 when its country code is
\* high-risk and 0.2 when it is medium-risk, with one reason naming the side
\* and the code; the two sets are disjoint, so a side never gets both and
\* adds at most 0.4 before the bonus.
C24_SideContributions ==
  GeographicReturned =>
    LET sender == BicCase(scorer_message, "sender_bic")
        receiver == BicCase(scorer_message, "receiver_bic")
        bonus == BonusReasons(score_result.fraud_reasons)
    IN  /\ high_risk_countries \cap medium_risk_countries = {}
        /\ score_result.risk_score - 3 * Len(bonus) =
             ListedScore(sender) + ListedScore(receiver)
        /\ score_result.fraud_reasons =
             ListedReasons(sender, "sender", "high")
               \o ListedReasons(receiver, "receiver", "high")
               \o ListedReasons(sender, "sender", "medium")
               \o ListedReasons(receiver, "receiver", "medium")
               \o bonus

\* a high-risk sender and a medium-risk receiver, written in lower and upper
\* case: 0.4 + 0.2 and one reason for each side
C24_Witness ==
  /\ GeographicReturned
  /\ BicCase(scorer_message, "sender_bic").country = <<"R", "U">>
  /\ BicCase(scorer_message, "receiver_bic").country = <<"C", "N">>
  /\ score_result.risk_score = 6
  /\ Len(score_result.fraud_reasons) = 2

\* C25: when a code is shorter than 6 characters (the other one being a
\* string of any length), the geographic scorer raises nothing, adds no
\* score and no reason for that side and no asymmetry bonus: the result is
\* the other side's own 0.4 or 0.2, or 0.
C25_ShortCodeSkipped ==
  LET sender_bic == Get(scorer_message, "sender_bic", <<>>)
      receiver_bic == Get(scorer_message, "receiver_bic", <<>>)
  IN  (/\ scorer_pc = "done"
       /\ scorer = "FraudGeographicRiskAgent"
       /\ sender_bic # None /\ receiver_bic # None
       /\ (Len(sender_bic) < 6 \/ Len(receiver_bic) < 6))
        =>
        LET sender == BicCase(scorer_message, "sender_bic")
            receiver == BicCase(scorer_message, "receiver_bic")
            own(c) == IF Len(c.text) < 6 THEN 0 ELSE ListedScore(c)
        IN  /\ ~IsRaised(score_result)
            /\ score_result.risk_score = own(sender) + own(receiver)
            /\ score_result.risk_score \in {0, 2, 4}
            /\ BonusReasons(score_result.fraud_reasons) = <<>>
            /\ Len(score_result.fraud_reasons) =
                 IF score_result.risk_score = 0 THEN 0 ELSE 1
            /\ \A n \in DOMAIN score_result.fraud_reasons :
                  LET named == score_result.fraud_reasons[n][2]
                  IN  \/ Len(sender.text) >= 6 /\ named = sender.country
                      \/ Len(receiver.text) >= 6 /\ named = receiver.country

\* a five-character sender code and a high-risk receiver: 0.4, one reason,
\* no bonus
C25_Witness ==
  /\ GeographicReturned
  /\ Len(BicCase(scorer_message, "sender_bic").text) = 5
  /\ BicCase(scorer_message, "receiver_bic").risk = "high"
  /\ score_result.risk_score = 4
  /\ Len(score_result.fraud_reasons) = 1

(***************************************************************************)
(* EvaluatorOptimizerPattern (evaluator_optimizer.py).  A message is a     *)
(* dict whose values are strings (sequences of characters) or None; an     *)
(* error is a tuple, the fixed text first.                                 *)
(***************************************************************************)
MAX_ITERATIONS == 3
max_reference_length == 16
\* 999999999.99 and 0.01, as a whole part and hundredths
max_amount == [whole |-> 999999999, hundredths |-> 99]
min_amount == [whole |-> 0, hundredths |-> 1]
required_fields ==
  <<"message_type", "reference", "amount", "sender_bic", "receiver_bic">>
valid_message_types == { <<"M", "T", "1", "0", "3">>, <<"M", "T", "2", "0", "2">> }
valid_currencies ==
  { <<"U", "S", "D">>, <<"E", "U", "R">>, <<"G", "B", "P">>, <<"J", "P", "Y">>, <<"C", "H", "F">> }

\* str.split(): the runs of characters between blanks
RECURSIVE split(_)
split(s) ==
  IF s = <<>> THEN <<>>
  ELSE IF s[1] = " " THEN split(Tail(s))
  ELSE LET blanks == {n \in DOMAIN s : s[n] = " "}
           stop == IF blanks = {} THEN Len(s) + 1
                   ELSE CHOOSE n \in blanks : \A m \in blanks : n <= m
       IN  <<SubSeq(s, 1, stop - 1)>> \o split(SubSeq(s, stop, Len(s)))

isalpha(s) ==
  s # <<>> /\ \A n \in DOMAIN s : s[n] \in Range(LowerLetters) \cup Range(UpperLetters)

isalnum(s) ==
  /\ s # <<>>
  /\ \A n \in DOMAIN s :
        s[n] \in Range(LowerLetters) \cup Range(UpperLetters) \cup Range(Digits)

\* `not value` for a field value: '' and None are falsy
falsy(value) == value = <<>> \/ value = None

\* amount_value > bound and amount_value < bound for a parsed amount
GreaterThan(amount, bound) ==
  LET whole == amount.int \div amount.scale
      rest == amount.int % amount.scale
  IN  \/ whole > bound.whole
      \/ whole = bound.whole /\ rest * 100 > bound.hundredths * amount.scale

LessThan(amount, bound) ==
  LET whole == amount.int \div amount.scale
      rest == amount.int % amount.scale
  IN  \/ whole < bound.whole
      \/ whole = bound.whole /\ rest * 100 < bound.hundredths * amount.scale

\* lines 107-139
_validate_bic(bic) ==
  IF falsy(bic) THEN FALSE
  ELSE IF Len(bic) \notin {8, 11} THEN FALSE
  ELSE IF ~isalpha(Slice(bic, 0, 4)) THEN FALSE
  ELSE IF ~isalpha(Slice(bic, 4, 6)) THEN FALSE
  ELSE IF ~isalnum(Slice(bic, 6, 8)) THEN FALSE
  ELSE IF Len(bic) = 11 /\ ~isalnum(Slice(bic, 8, 11)) THEN FALSE
  ELSE TRUE

\* line 66: len(reference) raises TypeError for a None reference, and
\* nothing catches it
evaluate_message_raises(message) ==
  Get(message, "reference", <<>>) = None

\* lines 43-105: the list of errors (is_valid is errors = [])
evaluate_message(message) ==
  LET missing ==
        SelectSeq(required_fields,
                  LAMBDA field : field \notin DOMAIN message
                                   \/ falsy(message[field]))
      type_errors ==
        IF "message_type" \in DOMAIN message
             /\ message["message_type"] \in valid_message_types
          THEN <<>>
          ELSE << <<"Invalid message type: ",
                    Get(message, "message_type", None)>> >>
      reference == Get(message, "reference", <<>>)
      reference_errors ==
        IF reference # None /\ Len(reference) > max_reference_length
          THEN << <<"Reference too long: ", Len(reference)>> >>
          ELSE <<>>
      amount_str == Get(message, "amount", <<"0">>)
      words == IF amount_str = None THEN <<>> ELSE split(amount_str)
      amount_value ==
        IF amount_str = None THEN [raised |-> "AttributeError"]
        ELSE IF words = <<>> THEN [raised |-> "IndexError"]
        ELSE float(SelectSeq(words[1], LAMBDA c : isdigit(c) \/ c = "."))
      amount_errors ==
        IF IsRaised(amount_value)
          THEN << <<"Invalid amount format: ",
                    Get(message, "amount", None)>> >>
        ELSE IF GreaterThan(amount_value, max_amount)
          THEN << <<"Amount exceeds maximum: ", amount_value>> >>
        ELSE IF LessThan(amount_value, min_amount)
          THEN << <<"Amount below minimum: ", amount_value>> >>
        ELSE <<>>
      sender_bic == Get(message, "sender_bic", <<>>)
      receiver_bic == Get(message, "receiver_bic", <<>>)
      bic_errors ==
        (IF _validate_bic(sender_bic) THEN <<>>
         ELSE << <<"Invalid sender BIC: ", sender_bic>> >>)
          \o (IF _validate_bic(receiver_bic) THEN <<>>
              ELSE << <<"Invalid receiver BIC: ", receiver_bic>> >>)
          \o (IF ~falsy(sender_bic) /\ sender_bic = receiver_bic
                THEN << <<"Sender and receiver BIC cannot be the same">> >>
                ELSE <<>>)
      currency_errors ==
        IF "amount" \notin DOMAIN message THEN <<>>
        ELSE LET parts == IF message["amount"] = None THEN <<>>
                          ELSE split(message["amount"])
             IN  IF parts = <<>>
                   THEN << <<"Cannot extract currency from amount">> >>
                 ELSE IF parts[Len(parts)] \notin valid_currencies
                   THEN << <<"Invalid currency: ", parts[Len(parts)]>> >>
                 ELSE <<>>
  IN  [n \in 1..Len(missing) |-> <<"Missing required field: ", missing[n]>>]
        \o type_errors \o reference_errors \o amount_errors \o bic_errors
        \o currency_errors

(***************************************************************************)
(* Input messages of process_with_evaluator_optimizer.                     *)
(***************************************************************************)
\* no error
EoValid ==
  [message_id |-> <<"V", "A", "L", "I", "D", "0", "0", "1">>,
   message_type |-> <<"M", "T", "1", "0", "3">>,
   reference |-> <<"R", "E", "F", "1", "2", "3", "4", "5", "6">>,
   amount |-> <<"5", "0", "0", "0", ".", "0", "0", " ", "U", "S", "D">>,
   sender_bic |-> <<"C", "H", "A", "S", "U", "S", "3", "3", "X", "X", "X">>,
   receiver_bic |-> <<"D", "E", "U", "T", "D", "E", "F", "F", "X", "X", "X">>]

\* reference too long, amount below the minimum, invalid sender code
EoFixable ==
  [message_id |-> <<"F", "I", "X", "A", "B", "L", "E", "0", "0", "1">>,
   message_type |-> <<"M", "T", "1", "0", "3">>,
   reference |-> <<"R", "E", "F", "_", "N", "E", "E", "D", "S", "_", "F", "I", "X", "_", "1", "2", "3", "4", "5", "6", "7", "8", "9">>,
   amount |-> <<"0", ".", "0", "0", "1", " ", "U", "S", "D">>,
   sender_bic |-> <<"T", "E", "S", "T", "1", "2", "3", "4">>,
   receiver_bic |-> <<"B", "A", "R", "C", "G", "B", "2", "2", "X", "X", "X">>]

\* no reference, empty amount, invalid type, equal codes
EoInvalid ==
  [message_id |-> <<"I", "N", "V", "A", "L", "I", "D", "0", "0", "1">>,
   message_type |-> <<"M", "T", "9", "9", "9">>,
   amount |-> <<>>,
   sender_bic |-> <<"D", "E", "U", "T", "D", "E", "F", "F">>,
   receiver_bic |-> <<"D", "E", "U", "T", "D", "E", "F", "F">>]

\* a null reference: evaluate_message raises TypeError
EoNullReference ==
  [message_id |-> <<"N", "U", "L", "L", "R", "E", "F", "0", "0", "1">>,
   message_type |-> <<"M", "T", "2", "0", "2">>,
   reference |-> None,
   amount |-> <<"1", "0", "0", "0", "0", "0", "0", "0", "0", "0", " ", "U", "S", "D">>,
   sender_bic |-> <<"C", "H", "A", "S", "U", "S", "3", "3">>,
   receiver_bic |-> <<"D", "E", "U", "T", "D", "E", "F", "F">>]

EvalRecords == {EoValid, EoFixable, EoInvalid, EoNullReference}

(***************************************************************************)
(* SwiftCorrectionAgent.respond: the JSON object the model answers with is *)
(* not determined by the code.  The answers considered for a message: all  *)
(* required fields repaired, only the reference repaired, the repaired     *)
(* message without its message_id, the repaired message without its        *)
(* amount.                                                                 *)
(***************************************************************************)
Repaired(message) ==
  [key \in DOMAIN message \cup Range(required_fields) |->
     IF key \in Range(required_fields) THEN EoValid[key] ELSE message[key]]

Without(message, dropped) ==
  [key \in DOMAIN message \ {dropped} |-> message[key]]

LLMAnswers(message) ==
  { Repaired(message),
    Put(message, "reference", EoValid["reference"]),
    Without(Repaired(message), "message_id"),
    Without(Repaired(message), "amount") }

\* base_agents.py lines 80-99: what respond may return, the parsed answer
\* or the message itself when the call or the parsing failed
respond(message, errs) == LLMAnswers(message) \cup {message}

\* lines 148-178, corrected being what respond returned
optimize_message(message, errs, corrected) ==
  IF errs = <<>> THEN message
  ELSE [key \in DOMAIN corrected \cup Range(required_fields) |->
          IF key \in DOMAIN corrected THEN corrected[key]
          ELSE Get(message, key, <<>>)]

\* faulty variant: a correction is attempted after every failed evaluation
may_optimize_always(n) == n < MAX_ITERATIONS

\* line 213: if iteration < self.MAX_ITERATIONS - 1
may_optimize(n) == n < MAX_ITERATIONS - 1

\* faulty variant: the error list is not kept
Mark_noerrors(message, status, errs) ==
  Put(Put(message, "validation_status", status), "validation_errors", <<>>)

\* lines 203-204 and 220-221
Mark(message, status, errs) ==
  Put(Put(message, "validation_status", status), "validation_errors", errs)

InitEval ==
  /\ eo_messages \in SeqsUpTo(EvalRecords, MaxBatch)
  /\ eo_pc = IF eo_messages = <<>> THEN "done" ELSE "evaluate"
  /\ eo_i = 1
  /\ iteration = 0
  /\ eo_message = IF eo_messages = <<>> THEN NoMessage ELSE eo_messages[1]
  /\ errors = <<>>
  /\ optimized_messages = <<>>
  /\ trace = [p \in DOMAIN eo_messages |-> <<>>]
  /\ BatchIdle
  /\ AggIdle
  /\ ScorerIdle
  /\ OrchIdle

\* the end of one pass of `for iteration in range(self.MAX_ITERATIONS)`
NextIteration ==
  /\ iteration' = iteration + 1
  /\ eo_pc' = IF iteration + 1 < MAX_ITERATIONS THEN "evaluate" ELSE "append"

\* lines 197-221 without the correction: evaluate the message; valid: mark
\* it and break; invalid in the last pass: mark it; otherwise go and correct
Evaluate ==
  /\ eo_pc = "evaluate"
  /\ LET outcome == evaluate_message(eo_message)
     IN  IF evaluate_message_raises(eo_message)
           THEN /\ eo_pc' = "raised"
                /\ UNCHANGED <<iteration, eo_message, errors, trace>>
         ELSE /\ errors' = outcome
              /\ trace' = [trace EXCEPT ![eo_i] =
                             Append(@, [op |-> "evaluate",
                                        message |-> eo_message,
                                        errors |-> outcome])]
              /\ IF outcome = <<>>
                   THEN /\ eo_message' = Mark(eo_message, "VALID", <<>>)
                        /\ eo_pc' = "append"
                        /\ UNCHANGED iteration
                 ELSE IF may_optimize(iteration)
                   THEN /\ eo_pc' = "optimize"
                        /\ UNCHANGED <<iteration, eo_message>>
                 ELSE /\ eo_message' = Mark(eo_message, "INVALID", outcome)
                      /\ NextIteration
  /\ UNCHANGED <<eo_messages, eo_i, optimized_messages>>
  /\ UNCHANGED batch_vars
  /\ UNCHANGED rerun_vars
  /\ UNCHANGED agg_vars
  /\ UNCHANGED scorer_vars
  /\ UNCHANGED orch_vars

\* line 216: message = self.optimize_message(message, errors)
Optimize ==
  /\ eo_pc = "optimize"
  /\ \E corrected \in respond(eo_message, errors) :
        /\ eo_message' = optimize_message(eo_message, errors, corrected)
        /\ trace' = [trace EXCEPT ![eo_i] =
                       Append(@, [op |-> "optimize",
                                  message |-> eo_message',
                                  errors |-> errors])]
  /\ NextIteration
  /\ UNCHANGED <<eo_messages, eo_i, errors, optimized_messages>>
  /\ UNCHANGED batch_vars
  /\ UNCHANGED rerun_vars
  /\ UNCHANGED agg_vars
  /\ UNCHANGED scorer_vars
  /\ UNCHANGED orch_vars

\* line 223, then the next message of the outer loop or the return
AppendMessage ==
  /\ eo_pc = "append"
  /\ optimized_messages' = Append(optimized_messages, eo_message)
  /\ IF eo_i < Len(eo_messages)
       THEN /\ eo_i' = eo_i + 1
            /\ eo_message' = eo_messages[eo_i + 1]
            /\ iteration' = 0
            /\ eo_pc' = "evaluate"
       ELSE /\ eo_pc' = "done"
            /\ UNCHANGED <<eo_i, eo_message, iteration>>
  /\ UNCHANGED <<eo_messages, errors, trace>>
  /\ UNCHANGED batch_vars
  /\ UNCHANGED rerun_vars
  /\ UNCHANGED agg_vars
  /\ UNCHANGED scorer_vars
  /\ UNCHANGED orch_vars

NextEval ==
  \/ Evaluate
  \/ Optimize
  \/ AppendMessage

SpecEval == InitEval /\ [][NextEval]_vars

(***************************************************************************)
(* Properties of the evaluator-optimizer loop (SpecEval).                  *)
(***************************************************************************)
\* the steps of one kind recorded for a message
Steps(tr, op) == {step \in DOMAIN tr : tr[step].op = op}


\* C26: each message is evaluated at most MAX_ITERATIONS times and
\* corrected at most MAX_ITERATIONS - 1 times; each correction is followed
\* by a re-evaluation, comes directly after an evaluation that found errors,
\* and never after the last allowed evaluation.
C26_BoundedCorrections ==
  \A p \in DOMAIN trace :
    LET tr == trace[p]
    IN  /\ Cardinality(Steps(tr, "evaluate")) <= MAX_ITERATIONS
        /\ Cardinality(Steps(tr, "optimize")) <= MAX_ITERATIONS - 1
        /\ \A step \in Steps(tr, "optimize") :
              /\ step > 1
              /\ tr[step - 1].op = "evaluate"
              /\ tr[step - 1].errors # <<>>
              /\ Cardinality({earlier \in Steps(tr, "evaluate") : earlier < step})
                   < MAX_ITERATIONS
              /\ IF step < Len(tr) THEN tr[step + 1].op = "evaluate"
                 ELSE eo_i = p /\ eo_pc = "evaluate"

C26_Witness ==
  /\ eo_pc = "done"
  /\ \E p \in DOMAIN trace :
        /\ Cardinality(Steps(trace[p], "evaluate")) = MAX_ITERATIONS
        /\ Cardinality(Steps(trace[p], "optimize")) = MAX_ITERATIONS - 1
  /\ \E p \in DOMAIN trace :
        /\ Cardinality(Steps(trace[p], "optimize")) = 1
        /\ trace[p][Len(trace[p])].errors = <<>>

\* C27: when the loop returns there is one output per input, in input
\* order, each marked VALID or INVALID: VALID exactly when one of its
\* evaluations found no errors, with an empty validation_errors; INVALID
\* exactly when evaluation number MAX_ITERATIONS still found errors, with
\* that non-empty list as validation_errors.
C27_OutputsMarked ==
  eo_pc = "done" =>
    /\ Len(optimized_messages) = Len(eo_messages)
    /\ \A p \in DOMAIN eo_messages :
          LET tr == trace[p]
              out == optimized_messages[p]
              evals == Steps(tr, "evaluate")
              last == tr[Len(tr)]
          IN  /\ tr # <<>>
              /\ tr[1].op = "evaluate"
              /\ tr[1].message = eo_messages[p]
              /\ last.op = "evaluate"
              /\ DOMAIN out =
                   DOMAIN last.message
                     \cup {"validation_status", "validation_errors"}
              /\ \A key \in DOMAIN last.message
                     \ {"validation_status", "validation_errors"} :
                    out[key] = last.message[key]
              /\ out["validation_status"] \in {"VALID", "INVALID"}
              /\ out["validation_status"] = "VALID"
                   <=> \E step \in evals : tr[step].errors = <<>>
              /\ out["validation_status"] = "VALID"
                   => out["validation_errors"] = <<>>
              /\ out["validation_status"] = "INVALID"
                   <=> /\ Cardinality(evals) = MAX_ITERATIONS
                       /\ last.errors # <<>>
              /\ out["validation_status"] = "INVALID"
                   => /\ out["validation_errors"] = last.errors
                      /\ out["validation_errors"] # <<>>

C27_Witness ==
  /\ eo_pc = "done"
  /\ Len(optimized_messages) = MaxBatch
  /\ optimized_messages[1]["validation_status"] = "INVALID"
  /\ optimized_messages[1]["validation_errors"] # <<>>
  /\ optimized_messages[2]["validation_status"] = "VALID"
  /\ Steps(trace[2], "optimize") # {}

\* C28: every message the validation stage hands on still carries the
\* message_id it was generated with.
C28_MessageIdKept ==
  \A p \in DOMAIN optimized_messages :
    /\ "message_id" \in DOMAIN optimized_messages[p]
    /\ optimized_messages[p]["message_id"] = eo_messages[p]["message_id"]

(***************************************************************************)
(* OrchestratorWorkerPattern.process_with_orchestrator                     *)
(* (orchestrator_worker.py).  The orchestrator's and the agent's model     *)
(* calls are not determined by the code: their answers are chosen from     *)
(* small sets.                                                             *)
(***************************************************************************)
\* tasks as the orchestrator's prompt describes them (lines 60-70), one of
\* them without a task_id
TaskCompliance ==
  [task_id |-> <<"T", "1">>, type |-> "compliance_check"]

TaskFraud ==
  [task_id |-> <<"T", "2">>, type |-> "fraud_analysis"]

TaskNoId ==
  [type |-> "summary_report"]

\* an element of the task list that is not a JSON object: task.get raises
\* AttributeError at line 186, before execute_task is called
NotAnObject == [json |-> "string"]

TaskValues == {TaskCompliance, TaskFraud, TaskNoId, NotAnObject}

\* lines 87-88: the answer of analyze_and_create_tasks when its call raised
OrchestratorFallback ==
  [analysis |-> "Error occurred", task_count |-> 0, tasks |-> <<>>]

\* lines 73-88: what analyze_and_create_tasks may return: the parsed JSON
\* object, with a task list or without the tasks key, or the fallback
analyze_and_create_tasks ==
  { [analysis |-> "Batch analysed", task_count |-> Len(list), tasks |-> list] :
      list \in SeqsUpTo(TaskValues, MaxTasks) }
    \cup { [analysis |-> "Batch analysed", task_count |-> 1] }
    \cup { OrchestratorFallback }

\* lines 135-160: what execute_task may return for a task: completed with
\* the parsed answer, or failed with the exception's text
execute_task(task) ==
  { [task_id |-> Get(task, "task_id", None),
     status |-> "completed",
     results |-> answer] :
       answer \in {EmptyDict, [findings |-> "none"]} }
    \cup { [task_id |-> Get(task, "task_id", None),
            status |-> "failed",
            error |-> "Connection error.",
            results |-> EmptyDict] }

\* faulty variant: a failed task ends the loop
after_task_stop(outcome, n) ==
  IF n = Len(tasks) \/ outcome["status"] = "failed" THEN "done" ELSE "execute"

\* line 185: `for task in tasks` goes on to the next task whatever the
\* result was, and ends after the last one
after_task(outcome, n) ==
  IF n = Len(tasks) THEN "done" ELSE "execute"

InitOrch ==
  /\ orch_pc = "analyze"
  /\ orchestrator_response = EmptyDict
  /\ tasks = <<>>
  /\ task_n = 1
  /\ task_results = <<>>
  /\ executed = <<>>
  /\ BatchIdle
  /\ AggIdle
  /\ ScorerIdle
  /\ EvalIdle

\* lines 171-183: ask the orchestrator, take its task list
Analyze ==
  /\ orch_pc = "analyze"
  /\ \E response \in analyze_and_create_tasks :
        /\ orchestrator_response' = response
        /\ tasks' = Get(response, "tasks", <<>>)
        /\ orch_pc' = IF Get(response, "tasks", <<>>) = <<>>
                        THEN "done" ELSE "execute"
  /\ UNCHANGED <<task_n, task_results, executed>>
  /\ UNCHANGED batch_vars
  /\ UNCHANGED rerun_vars
  /\ UNCHANGED agg_vars
  /\ UNCHANGED scorer_vars
  /\ UNCHANGED eo_vars

\* lines 185-189: one pass of the loop over the tasks
ExecuteTask ==
  /\ orch_pc = "execute"
  /\ IF tasks[task_n] = NotAnObject
       THEN /\ orch_pc' = "raised"
            /\ UNCHANGED <<task_n, task_results, executed>>
     ELSE \E outcome \in execute_task(tasks[task_n]) :
            /\ task_results' = Append(task_results, outcome)
            /\ executed' = Append(executed, task_n)
            /\ task_n' = task_n + 1
            /\ orch_pc' = after_task(outcome, task_n)
  /\ UNCHANGED <<orchestrator_response, tasks>>
  /\ UNCHANGED batch_vars
  /\ UNCHANGED rerun_vars
  /\ UNCHANGED agg_vars
  /\ UNCHANGED scorer_vars
  /\ UNCHANGED eo_vars

NextOrch ==
  \/ Analyze
  \/ ExecuteTask

SpecOrch == InitOrch /\ [][NextOrch]_vars

(***************************************************************************)
(* Properties of process_with_orchestrator (SpecOrch).                     *)
(***************************************************************************)
\* C29: the tasks are executed once each in list order, each execution
\* adds one result with the task's id and status completed or failed; when
\* the call returns there is one result per task of the orchestrator's
\* answer, failed executions included, and after an orchestrator failure
\* there are no tasks and no results.
C29_TasksInOrder ==
  /\ executed = [n \in 1..Len(executed) |-> n]
  /\ Len(task_results) = Len(executed)
  /\ Len(executed) <= Len(tasks)
  /\ \A n \in DOMAIN task_results :
        /\ task_results[n]["status"] \in {"completed", "failed"}
        /\ task_results[n]["task_id"] = Get(tasks[n], "task_id", None)
  /\ orch_pc = "done" =>
        /\ tasks = Get(orchestrator_response, "tasks", <<>>)
        /\ Len(task_results) = Len(tasks)
        /\ orchestrator_response = OrchestratorFallback =>
              tasks = <<>> /\ task_results = <<>>

C29_Witness ==
  /\ orch_pc = "done"
  /\ Len(tasks) = MaxTasks
  /\ task_results[1]["status"] = "failed"
  /\ task_results[2]["status"] = "completed"
  /\ task_results[MaxTasks]["task_id"] = None

=============================================================================
